---- MODULE Spec2Model ----
(***************************************************************************)
(* Loan ledger of prestoras: loans, installment schedules, payments,       *)
(* penalty (mora) and refinancing, as implemented by the Django models and *)
(* the Strawberry mutations of apps/loans and apps/payments.               *)
(*                                                                         *)
(* Money.  A DecimalField(decimal_places=2) column holds whole cents; the  *)
(* model stores such a column as an integer number of cents.  Values held  *)
(* in Python Decimal objects before they are saved carry more digits; the  *)
(* model holds them in "micro" units, Micro per cent, and rounds them to   *)
(* the cent when a row is written, ties away from zero, as the numeric     *)
(* column of the configured PostgreSQL database does.                      *)
(* Dates are day numbers.                                                  *)
(***************************************************************************)
EXTENDS Integers, Sequences, FiniteSets, TLC

\* ------------------------------------------------------------------ bounds
MaxN == 3            \* largest number_of_installments offered to the mutations
MaxLoans == 1        \* loan rows ever created in one behaviour
MaxPayments == 2     \* payment rows ever created in one behaviour
MaxDay == 2          \* last day the clock reaches
MaxSaves == 1        \* times one payment row is saved again after its creation
MaxAdjustments == 1  \* PenaltyAdjustment rows ever created in one behaviour

\* ------------------------------------------------------- decimal arithmetic
Micro == 10000       \* micro units per cent: the digits a Decimal keeps beyond the cent

Min(a, b) == IF a < b THEN a ELSE b

Abs(a) == IF a < 0 THEN 0 - a ELSE a

\* a / n rounded half-even to a whole unit, a >= 0, n > 0 (decimal's ROUND_HALF_EVEN)
DivHalfEven(a, n) ==
    LET q == a \div n
        r == a % n
    IN  IF 2 * r < n THEN q
        ELSE IF 2 * r > n THEN q + 1
        ELSE IF q % 2 = 0 THEN q ELSE q + 1

\* Decimal division of an in-memory value by an installment count
DecDiv(a, n) == DivHalfEven(a, n)

\* a / n rounded to a whole unit, ties away from zero, a >= 0, n > 0
DivHalfUp(a, n) == (2 * a + n) \div (2 * n)

\* a value in micro units as the numeric(15, 2) column stores it (cents)
Quantize(m) == IF m >= 0 THEN DivHalfUp(m, Micro) ELSE 0 - DivHalfUp(0 - m, Micro)

\* cents as an in-memory Decimal
ToMicro(c) == c * Micro

\* int(a / n): true division truncated toward zero
TruncDiv(a, n) == IF a >= 0 THEN a \div n ELSE 0 - ((0 - a) \div n)

\* ---------------------------------------------------------------- choices
LOAN_STATUS_CHOICES == {"ACTIVE", "COMPLETED", "DEFAULTING", "REFINANCED", "CANCELLED"}

INSTALLMENT_STATUS_CHOICES == {"PENDING", "PAID", "OVERDUE", "PARTIALLY_PAID", "CANCELLED"}

PENALTY_TYPE_CHOICES == {"FIXED", "PERCENTAGE"}

valid_periodicities == {"DAILY", "WEEKLY", "BIWEEKLY", "MONTHLY", "QUARTERLY", "CUSTOM"}

\* an optional argument: {} is None, {v} is the value v
None == {}

Some(v) == {v}

Val(opt) == CHOOSE v \in opt : TRUE

VARIABLES
    loans,           \* Loan rows: loan id -> row
    installments,    \* Installment rows: <<loan id, installment_number>> -> row
    payments,        \* Payment rows: payment id -> row
    pis,             \* PaymentInstallment rows: <<payment id, <<loan id, number>>>> -> amount_applied
    adjustments,     \* PenaltyAdjustment rows, in creation order
    refinancings,    \* Refinancing rows, in creation order
    classification,  \* Client.classification of the one client
    nextLoan,        \* next Loan id of the AutoField
    nextPayment,     \* next Payment id of the AutoField
    today,           \* timezone.now().date()
    last,            \* the step just taken: the mutation called, its loan and amount
                     \* arguments, its result and the id of the row it created or edited
    tx               \* the requests in flight (concurrent specification only)

vars == <<loans, installments, payments, pis, adjustments, refinancings,
          classification, nextLoan, nextPayment, today, last, tx>>

\* the rows of the database
db == <<loans, installments, payments, pis, adjustments, refinancings, classification>>

\* the database as one value, and the step that writes it back
DB == [loans |-> loans, installments |-> installments, payments |-> payments, pis |-> pis,
       adjustments |-> adjustments, refinancings |-> refinancings,
       classification |-> classification]

Commit(s) ==
    /\ loans' = s.loans
    /\ installments' = s.installments
    /\ payments' = s.payments
    /\ pis' = s.pis
    /\ adjustments' = s.adjustments
    /\ refinancings' = s.refinancings
    /\ classification' = s.classification

\* ------------------------------------------------------- function helpers
Restrict(f, S) == [x \in S |-> f[x]]

Merge(f, g) == [x \in (DOMAIN f) \cup (DOMAIN g) |-> IF x \in DOMAIN g THEN g[x] ELSE f[x]]

RECURSIVE SumOver(_, _)
SumOver(f, S) ==
    IF S = {} THEN 0
    ELSE LET x == CHOOSE y \in S : TRUE IN f[x] + SumOver(f, S \ {x})

\* the installment keys of one loan
InstOf(insts, lid) == {k \in DOMAIN insts : k[1] = lid}

\* -------------------------------------------------------------- Loan model
\* Loan.calculate_total_amount: total and pending of the in-memory object, in micro
\* units (initial_amount and paid_amount in cents, interest_rate in hundredths of a percent)
TotalMicro(initial, rate) == ToMicro(initial) + initial * rate

PendingMicro(initial, rate, paid) == TotalMicro(initial, rate) - ToMicro(paid)

\* days between two due dates, generate_installments' days_interval.get(periodicity, 1)
DaysInterval(periodicity, start, end, n) ==
    CASE periodicity = "DAILY" -> 1
      [] periodicity = "WEEKLY" -> 7
      [] periodicity = "BIWEEKLY" -> 14
      [] periodicity = "MONTHLY" -> 30
      [] periodicity = "QUARTERLY" -> 90
      [] periodicity = "CUSTOM" -> TruncDiv(end - start, n)
      [] OTHER -> 1

\* the amounts of installment i of n, as generate_installments computes them (micro)
CapitalPer(initial, n) == DecDiv(ToMicro(initial), n)

InterestPer(initial, rate, n) == DecDiv(initial * rate, n)

RemainingCapital(initial, n) == ToMicro(initial) - CapitalPer(initial, n) * (n - 1)

RemainingInterest(initial, rate, n) == initial * rate - InterestPer(initial, rate, n) * (n - 1)

\* the rows a generate_installments that left the last due date on the interval, not on
\* the loan's end date, would write
GenerateInstallmentsOnInterval(lid, initial, rate, n, periodicity, start, end) ==
    [k \in {<<lid, i>> : i \in 1..n} |->
        LET i == k[2]
            isLast == (i = n)
            cap == IF isLast THEN RemainingCapital(initial, n) ELSE CapitalPer(initial, n)
            int == IF isLast THEN RemainingInterest(initial, rate, n)
                   ELSE InterestPer(initial, rate, n)
        IN  [due |-> start + (i - 1) * DaysInterval(periodicity, start, end, n),
             capital |-> Quantize(cap),
             interest |-> Quantize(int),
             total |-> Quantize(cap + int),
             paid |-> 0,
             status |-> "PENDING"]]

\* generate_installments(loan): the rows bulk_create writes for loan lid, n >= 1
GenerateInstallments(lid, initial, rate, n, periodicity, start, end) ==
    [k \in {<<lid, i>> : i \in 1..n} |->
        LET i == k[2]
            isLast == (i = n)
            cap == IF isLast THEN RemainingCapital(initial, n) ELSE CapitalPer(initial, n)
            int == IF isLast THEN RemainingInterest(initial, rate, n)
                   ELSE InterestPer(initial, rate, n)
        IN  [due |-> IF isLast THEN end
                     ELSE start + (i - 1) * DaysInterval(periodicity, start, end, n),
             capital |-> Quantize(cap),
             interest |-> Quantize(int),
             total |-> Quantize(cap + int),
             paid |-> 0,
             status |-> "PENDING"]]

\* ------------------------------------------------------------ Client model
\* an update_classification whose threshold is more than half of the loans
ClassifyMajority(ls) ==
    LET total_count == Cardinality(DOMAIN ls)
        defaulting_count == Cardinality({l \in DOMAIN ls : ls[l].status \in {"DEFAULTING", "REFINANCED"}})
        completed_count == Cardinality({l \in DOMAIN ls : ls[l].status = "COMPLETED"})
    IN  IF total_count = 0 THEN "REGULAR"
        ELSE IF defaulting_count = 0 /\ completed_count > 0 THEN "PUNCTUAL"
        ELSE IF 2 * defaulting_count > total_count THEN "SEVERELY_DEFAULTING"
        ELSE IF defaulting_count > 0 THEN "DEFAULTING"
        ELSE "REGULAR"

\* Client.update_classification over the statuses of the client's loans
Classify(ls) ==
    LET total_count == Cardinality(DOMAIN ls)
        defaulting_count == Cardinality({l \in DOMAIN ls : ls[l].status \in {"DEFAULTING", "REFINANCED"}})
        completed_count == Cardinality({l \in DOMAIN ls : ls[l].status = "COMPLETED"})
    IN  IF total_count = 0 THEN "REGULAR"
        ELSE IF defaulting_count = 0 /\ completed_count > 0 THEN "PUNCTUAL"
        ELSE IF 2 * defaulting_count >= total_count THEN "SEVERELY_DEFAULTING"
        ELSE IF defaulting_count > 0 THEN "DEFAULTING"
        ELSE "REGULAR"

\* ------------------------------------------------------------------- Init
NoCall == [op |-> "none", ok |-> TRUE, why |-> "", loan |-> 0, row |-> 0, amount |-> 0]

Call(op, lid) == [NoCall EXCEPT !.op = op, !.loan = lid]

Fail(call, why) == [call EXCEPT !.ok = FALSE, !.why = why]

Init ==
    /\ loans = <<>>
    /\ installments = <<>>
    /\ payments = <<>>
    /\ pis = <<>>
    /\ adjustments = <<>>
    /\ refinancings = <<>>
    /\ classification = "REGULAR"
    /\ nextLoan = 1
    /\ nextPayment = 1
    /\ today = 0
    /\ last = NoCall
    /\ tx = <<>>

\* the clock: a day passes
Tick ==
    /\ today < MaxDay
    /\ today' = today + 1
    /\ last' = Call("tick", 0)
    /\ UNCHANGED <<db, nextLoan, nextPayment, tx>>

\* --------------------------------------------------------------- create_loan
\* create_loan's validation of its arguments: the reason of the failure result returned
\* before the Loan is built, "" when there is none
CreateLoanRejects(periodicity, start, end, ptype, pamount, ppct) ==
    IF periodicity \notin valid_periodicities THEN "periodicity"
    ELSE IF start >= end THEN "dates"
    ELSE IF ptype # None /\ Val(ptype) \notin PENALTY_TYPE_CHOICES THEN "penalty_type"
    ELSE IF ptype # None /\ Val(ptype) = "FIXED" /\ pamount = 0 THEN "penalty_amount"
    ELSE IF ptype # None /\ Val(ptype) = "PERCENTAGE" /\ ppct = 0 THEN "penalty_percentage"
    ELSE ""

\* the Loan row create_loan and refinance_loan save: calculate_total_amount, then save
NewLoanRow(initial, rate, n, periodicity, start, end, ptype, pamount, ppct, original, isref) ==
    [initial |-> initial, rate |-> rate, n |-> n, periodicity |-> periodicity,
     start |-> start, end |-> end,
     total |-> Quantize(TotalMicro(initial, rate)),
     paid |-> 0,
     pending |-> Quantize(PendingMicro(initial, rate, 0)),
     ptype |-> ptype, pamount |-> pamount, ppct |-> ppct,
     penalty |-> 0, status |-> "ACTIVE", original |-> original, isref |-> isref]

CreateLoan(initial, rate, n, periodicity, start, end, ptype, pamount, ppct) ==
    LET call == Call("create_loan", 0)
        why == CreateLoanRejects(periodicity, start, end, ptype, pamount, ppct)
    IN  /\ IF why # ""
           THEN /\ last' = Fail(call, why)
                /\ UNCHANGED <<db, nextLoan>>
           ELSE IF n = 0
           THEN \* Decimal's division by zero in generate_installments, rolled back by
                \* transaction.atomic(); the id the sequence gave the loan is spent
                /\ last' = Fail(call, "exception")
                /\ nextLoan' = nextLoan + 1
                /\ UNCHANGED db
           ELSE LET lid == nextLoan
                    row == NewLoanRow(initial, rate, n, periodicity, start, end,
                                      ptype, pamount, ppct, None, FALSE)
                    ls == Merge(loans, [x \in {lid} |-> row])
                IN  /\ loans' = ls
                    /\ installments' = Merge(installments,
                           GenerateInstallments(lid, initial, rate, n, periodicity, start, end))
                    /\ classification' = Classify(ls)
                    /\ nextLoan' = nextLoan + 1
                    /\ last' = [call EXCEPT !.loan = lid]
                    /\ UNCHANGED <<payments, pis, adjustments, refinancings>>
        /\ UNCHANGED <<nextPayment, today, tx>>

\* ------------------------------------------------------- Installment model
\* the status Installment.update_status derives from the object's amounts
StatusRule(paid, total, due, day) ==
    IF paid >= total THEN "PAID"
    ELSE IF paid > 0 THEN "PARTIALLY_PAID"
    ELSE IF day > due THEN "OVERDUE"
    ELSE "PENDING"

\* Installment.update_status() on an object whose paid_amount is memPaid: the row after
\* self.save(update_fields=['status'])
UpdateStatus(row, memPaid, day) ==
    [row EXCEPT !.status = StatusRule(memPaid, row.total, row.due, day)]

\* the key of the lowest-numbered installment of a non-empty set of keys
First(keys) == CHOOSE k \in keys : \A j \in keys : k[2] <= j[2]

\* ---------------------------------------------------------- Payment model
\* the loop of Payment._update_installments over the rows its queryset returned
RECURSIVE Distribute(_, _, _, _, _)
Distribute(s, pid, todo, remaining_amount, day) ==
    IF todo = {} \/ remaining_amount <= 0 THEN s
    ELSE LET k == First(todo)
             installment == s.installments[k]
             need == installment.total - installment.paid
             amount_to_apply == Min(remaining_amount, need)
         IN  IF amount_to_apply <= 0
             THEN Distribute(s, pid, todo \ {k}, remaining_amount, day)
             ELSE Distribute(
                    [s EXCEPT !.pis = Merge(@, [x \in {<<pid, k>>} |-> amount_to_apply]),
                              !.installments[k] =
                                  UpdateStatus(installment, installment.paid + amount_to_apply, day)],
                    pid, todo \ {k}, remaining_amount - amount_to_apply, day)

\* Payment._update_installments(amount_to_distribute)
UpdateInstallments(s, pid, amount_to_distribute, day) ==
    LET lid == s.payments[pid].loan
        todo == {k \in InstOf(s.installments, lid) :
                    s.installments[k].status \in {"PENDING", "OVERDUE", "PARTIALLY_PAID"}}
    IN  Distribute(s, pid, todo, amount_to_distribute, day)

\* the status a Payment.save that did not look at the end date would give the loan
LoanStatusIgnoresEndDate(loan, pending, day) ==
    IF pending <= 0 THEN "COMPLETED" ELSE loan.status

\* the status Payment.save gives the loan once pending_amount is recomputed
LoanStatusAfterPayment(loan, pending, day) ==
    IF pending <= 0 THEN "COMPLETED"
    ELSE IF loan.end < day THEN "DEFAULTING"
    ELSE loan.status

\* the part of a payment Payment.save applies to the loan's penalty
AmountToPenalty(amount, penalty) ==
    IF penalty > 0 /\ amount > 0 THEN Min(amount, penalty) ELSE 0

\* Payment.save() of the row pid already written by super().save()
PaymentSave(s, pid, day) ==
    LET payment == s.payments[pid]
        lid == payment.loan
        amount_to_penalty == AmountToPenalty(payment.amount, s.loans[lid].penalty)
        remaining == payment.amount - amount_to_penalty
        s1 == [s EXCEPT !.loans[lid].penalty = @ - amount_to_penalty]
        s2 == IF remaining > 0 THEN UpdateInstallments(s1, pid, remaining, day) ELSE s1
        loan == s2.loans[lid]
        paid == loan.paid + payment.amount
        pending == loan.total - paid
        s3 == [s2 EXCEPT !.loans[lid] =
                  [loan EXCEPT !.paid = paid, !.pending = pending,
                               !.status = LoanStatusAfterPayment(loan, pending, day)]]
    IN  IF payment.status # "COMPLETED" THEN s
        ELSE [s3 EXCEPT !.classification = Classify(s3.loans)]

\* a calculate_penalty that did not look at the loan's status
PenaltyIsDueIgnoresStatus(loan, day) == day > loan.end

\* Loan.calculate_penalty() returns early, writing nothing, on a closed loan and up to
\* the end date
PenaltyIsDue(loan, day) == loan.status \notin {"COMPLETED", "CANCELLED"} /\ day > loan.end

\* Loan.calculate_penalty(): the value it returns, in micro units
PenaltyReturned(loan, day) ==
    IF ~PenaltyIsDue(loan, day) THEN 0
    ELSE LET days_overdue == day - loan.end
         IN  IF loan.ptype = Some("FIXED") /\ loan.pamount # 0
             THEN ToMicro(loan.pamount * days_overdue)
             ELSE IF loan.ptype = Some("PERCENTAGE") /\ loan.ppct # 0
             THEN loan.pending * loan.ppct * days_overdue
             ELSE 0

\* the row after a calculate_penalty that added the penalty to the one already applied
CalculatePenaltyAccumulates(loan, day) ==
    IF ~PenaltyIsDue(loan, day) THEN loan
    ELSE [loan EXCEPT !.penalty = @ + Quantize(PenaltyReturned(loan, day))]

\* Loan.calculate_penalty(): the row after it
CalculatePenalty(loan, day) ==
    IF ~PenaltyIsDue(loan, day) THEN loan
    ELSE [loan EXCEPT !.penalty = Quantize(PenaltyReturned(loan, day))]

\* Loan.calculate_penalty() called on the stored loan: the value returned is kept in
\* last.amount
CalculatePenaltyCall(lid) ==
    /\ lid \in DOMAIN loans
    /\ loans' = [loans EXCEPT ![lid] = CalculatePenalty(@, today)]
    /\ last' = [Call("calculate_penalty", lid) EXCEPT
                    !.amount = PenaltyReturned(loans[lid], today)]
    /\ UNCHANGED <<installments, payments, pis, adjustments, refinancings, classification,
                   nextLoan, nextPayment, today, tx>>

\* create_payment's loop over the installments the caller selected: a PaymentInstallment
\* row is created per installment; err is the IntegrityError of unique_together
RECURSIVE LinkSelected(_, _, _, _, _)
LinkSelected(s, pid, todo, remaining_amount, day) ==
    IF todo = {} \/ remaining_amount <= 0 THEN [s |-> s, err |-> FALSE]
    ELSE LET k == First(todo)
             installment == s.installments[k]
             amount_needed == installment.total - installment.paid
             amount_to_apply == Min(remaining_amount, amount_needed)
         IN  IF <<pid, k>> \in DOMAIN s.pis THEN [s |-> s, err |-> TRUE]
             ELSE LinkSelected(
                    [s EXCEPT !.pis = Merge(@, [x \in {<<pid, k>>} |-> amount_to_apply]),
                              !.installments[k] =
                                  UpdateStatus(installment, installment.paid + amount_to_apply, day)],
                    pid, todo \ {k}, remaining_amount - amount_to_apply, day)

\* the check a create_payment that measured the amount against the loan's total, not
\* against what is still pending, would make
ExceedsTotal(amount, loan) == amount > loan.total + loan.penalty

\* create_payment's check of the amount against what is owed
ExceedsOwed(amount, loan) == amount > loan.pending + loan.penalty

\* create_payment's validation: the reason of the failure result, "" when there is none
CreatePaymentRejects(s, lid, amount, ids, methods_total) ==
    IF lid \notin DOMAIN s.loans THEN "not_found"
    ELSE IF \E i \in ids : <<lid, i>> \notin DOMAIN s.installments THEN "installments"
    ELSE IF Abs(methods_total - amount) > 1 THEN "methods"
    ELSE IF ExceedsOwed(amount, s.loans[lid]) THEN "exceeds"
    ELSE ""

\* the Payment row create_payment builds
NewPaymentRow(lid, amount) == [loan |-> lid, amount |-> amount, status |-> "COMPLETED", saves |-> 0]

\* what create_payment writes once its validation passed: payment.save(), the loop over
\* the selected installments, loan.calculate_penalty(); err is the IntegrityError
CreatePaymentWrites(s, lid, amount, ids, pid, day) ==
    LET s0 == [s EXCEPT !.payments = Merge(@, [x \in {pid} |-> NewPaymentRow(lid, amount)])]
        s1 == PaymentSave(s0, pid, day)
        linked == LinkSelected(s1, pid, {<<lid, i>> : i \in ids}, amount, day)
    IN  [s |-> [linked.s EXCEPT !.loans[lid] = CalculatePenalty(@, day)], err |-> linked.err]

\* the database an atomic block that kept its writes when the exception left it would
\* leave behind
AtomicExitKeepsWrites(before, written) == written

\* transaction.atomic() left by an exception: every write of the block is rolled back
AtomicExit(before, written) == before

\* create_payment (register_payment): ids are the installment numbers selected,
\* methods_total the sum of the payment_methods amounts
CreatePayment(lid, amount, ids, methods_total) ==
    LET call == [Call("register_payment", lid) EXCEPT !.amount = amount]
        why == CreatePaymentRejects(DB, lid, amount, ids, methods_total)
        pid == nextPayment
        written == CreatePaymentWrites(DB, lid, amount, ids, pid, today)
    IN  /\ IF why # ""
           THEN /\ last' = Fail(call, why)
                /\ UNCHANGED <<db, nextPayment>>
           ELSE IF written.err
           THEN \* IntegrityError: transaction.atomic() rolls every write back; the
                \* id the sequence gave the payment is spent
                /\ last' = Fail(call, "exception")
                /\ nextPayment' = nextPayment + 1
                /\ Commit(AtomicExit(DB, written.s))
           ELSE /\ Commit(written.s)
                /\ nextPayment' = nextPayment + 1
                /\ last' = [call EXCEPT !.row = pid]
        /\ UNCHANGED <<nextLoan, today, tx>>

\* update_payment: only the amount changes what Payment.save does afterwards; saves
\* counts the writes of the row (its updated_at)
UpdatePayment(pid, amount) ==
    LET call == [Call("update_payment", 0) EXCEPT !.amount = IF amount = None THEN 0 ELSE Val(amount),
                                                  !.row = pid]
    IN  /\ IF pid \notin DOMAIN payments
           THEN /\ last' = Fail(call, "not_found")
                /\ UNCHANGED db
           ELSE IF amount # None /\ Val(amount) <= 0
           THEN /\ last' = Fail(call, "amount")
                /\ UNCHANGED db
           ELSE LET s0 == [DB EXCEPT !.payments[pid].saves = @ + 1,
                                     !.payments[pid].amount =
                                         IF amount = None THEN @ ELSE Val(amount)]
                IN  /\ Commit(PaymentSave(s0, pid, today))
                    /\ last' = [call EXCEPT !.loan = payments[pid].loan]
        /\ UNCHANGED <<nextLoan, nextPayment, today, tx>>

\* ------------------------------------------------------ update_loan_penalty
AdjustmentType(penalty_applied, previous_penalty) ==
    IF penalty_applied = 0 THEN "ELIMINATE"
    ELSE IF penalty_applied < previous_penalty THEN "REDUCE"
    ELSE "MODIFY"

UpdateLoanPenalty(lid, penalty_applied, ptype, pamount, ppct) ==
    LET call == [Call("update_loan_penalty", lid) EXCEPT !.amount = penalty_applied]
    IN  /\ IF lid \notin DOMAIN loans
           THEN /\ last' = Fail(call, "not_found")
                /\ UNCHANGED db
           ELSE LET loan == loans[lid]
                    previous_penalty == loan.penalty
                    row == [loan EXCEPT !.penalty = penalty_applied,
                                        !.ptype = IF ptype = None THEN @ ELSE ptype,
                                        !.pamount = IF pamount = None THEN @ ELSE Val(pamount),
                                        !.ppct = IF ppct = None THEN @ ELSE Val(ppct)]
                IN  /\ adjustments' = Append(adjustments,
                           [loan |-> lid,
                            adjustment_type |-> AdjustmentType(penalty_applied, previous_penalty),
                            previous_penalty |-> previous_penalty,
                            new_penalty |-> penalty_applied])
                    /\ loans' = [loans EXCEPT ![lid] = row]
                    /\ last' = call
                    /\ UNCHANGED <<installments, payments, pis, refinancings, classification>>
        /\ UNCHANGED <<nextLoan, nextPayment, today, tx>>

\* --------------------------------------------------------------- update_loan
\* the loan object of update_loan once the given arguments are assigned, its money in
\* micro units (calculate_total_amount runs only when interest_rate is given)
UpdatedLoan(loan, rate, n, periodicity, start, end, ptype, pamount, ppct, status) ==
    LET r == IF rate = None THEN loan.rate ELSE Val(rate)
    IN  [loan EXCEPT
            !.rate = r,
            !.total = IF rate = None THEN ToMicro(@) ELSE TotalMicro(loan.initial, r),
            !.pending = IF rate = None THEN ToMicro(@)
                        ELSE PendingMicro(loan.initial, r, loan.paid),
            !.periodicity = IF periodicity = None THEN @ ELSE Val(periodicity),
            !.start = IF start = None THEN @ ELSE Val(start),
            !.end = IF end = None THEN @ ELSE Val(end),
            !.n = IF n = None THEN @ ELSE Val(n),
            !.ptype = IF ptype = None THEN @ ELSE ptype,
            !.pamount = IF pamount = None THEN @ ELSE Val(pamount),
            !.ppct = IF ppct = None THEN @ ELSE Val(ppct),
            !.status = IF status = None THEN @ ELSE Val(status)]

\* the row a Loan.save() that settled the balance would write
SavedLoanSettled(mem) == [mem EXCEPT !.total = Quantize(@), !.pending = 0]

\* Loan.save() of that object: the row written
SavedLoan(mem) ==
    LET recalc == (mem.total = 0)
    IN  [mem EXCEPT
            !.total = Quantize(IF recalc THEN TotalMicro(mem.initial, mem.rate) ELSE @),
            !.pending = Quantize(IF recalc THEN PendingMicro(mem.initial, mem.rate, mem.paid)
                                 ELSE @)]

\* the failure update_loan returns before it touches the installments, "" when none
UpdateLoanRejectsEarly(loan, periodicity, start, end, n) ==
    LET start_date == IF start = None THEN loan.start ELSE Val(start)
    IN  IF periodicity # None /\ Val(periodicity) \notin valid_periodicities THEN "periodicity"
        ELSE IF end # None /\ start_date >= Val(end) THEN "dates"
        ELSE IF n # None /\ loan.paid > 0 THEN "paid"
        ELSE ""

\* the failure update_loan returns after the installments were regenerated, "" when none
UpdateLoanRejectsLate(ptype, status) ==
    IF ptype # None /\ Val(ptype) \notin PENALTY_TYPE_CHOICES THEN "penalty_type"
    ELSE IF status # None /\ Val(status) \notin LOAN_STATUS_CHOICES THEN "status"
    ELSE ""

\* loan.installments.all().delete(), cascading to PaymentInstallment, then
\* generate_installments(loan)
Regenerate(s, lid, mem) ==
    LET gone == InstOf(s.installments, lid)
        keptI == Restrict(s.installments, DOMAIN s.installments \ gone)
        keptP == Restrict(s.pis, {x \in DOMAIN s.pis : x[2] \notin gone})
    IN  [s EXCEPT !.pis = keptP,
                  !.installments = Merge(keptI,
                      GenerateInstallments(lid, mem.initial, mem.rate, mem.n, mem.periodicity,
                                           mem.start, mem.end))]

UpdateLoan(lid, rate, n, periodicity, start, end, ptype, pamount, ppct, status) ==
    LET call == Call("update_loan", lid)
    IN  /\ IF lid \notin DOMAIN loans
           THEN /\ last' = Fail(call, "not_found")
                /\ UNCHANGED db
           ELSE LET loan == loans[lid]
                    mem == UpdatedLoan(loan, rate, n, periodicity, start, end,
                                       ptype, pamount, ppct, status)
                    early == UpdateLoanRejectsEarly(loan, periodicity, start, end, n)
                    late == UpdateLoanRejectsLate(ptype, status)
                    s1 == IF n = None THEN DB ELSE Regenerate(DB, lid, mem)
                IN  IF early # ""
                    THEN /\ last' = Fail(call, early)
                         /\ UNCHANGED db
                    ELSE IF n = Some(0)
                    THEN \* Decimal's division by zero, rolled back by transaction.atomic()
                         /\ last' = Fail(call, "exception")
                         /\ UNCHANGED db
                    ELSE IF late # ""
                    THEN \* the failure result is returned inside atomic(): what was
                         \* written so far is committed, the loan row is not saved
                         /\ last' = Fail(call, late)
                         /\ Commit(s1)
                    ELSE /\ last' = call
                         /\ Commit([s1 EXCEPT !.loans[lid] = SavedLoan(mem)])
        /\ UNCHANGED <<nextLoan, nextPayment, today, tx>>

\* ------------------------------------------------------------ refinance_loan
\* the failures a refinance_loan that measured the capital against the loan's total, not
\* against what is still pending, would return
RefinanceRejectsOverTotal(lid, capital_amount) ==
    IF lid \notin DOMAIN loans THEN "not_found"
    ELSE IF loans[lid].pending <= 0 THEN "paid_off"
    ELSE IF capital_amount > loans[lid].total THEN "exceeds"
    ELSE ""

\* the failure refinance_loan returns, "" when none
RefinanceRejects(lid, capital_amount) ==
    IF lid \notin DOMAIN loans THEN "not_found"
    ELSE IF loans[lid].pending <= 0 THEN "paid_off"
    ELSE IF capital_amount > loans[lid].pending THEN "exceeds"
    ELSE ""

\* the Refinancing row of a refinance_loan that recorded the original's total, not what
\* was still pending, as the outstanding balance
RefinancingRowOfTotal(original_loan, lid, new, capital_amount, rate, start, end) ==
    [original_loan |-> lid, new_loan |-> new,
     outstanding_balance |-> original_loan.total,
     refinanced_amount |-> capital_amount,
     interest_rate |-> rate,
     new_period_days |-> end - start,
     status |-> "APPROVED"]

\* the Refinancing row refinance_loan creates; original_loan is the object it saved
RefinancingRow(original_loan, lid, new, capital_amount, rate, start, end) ==
    [original_loan |-> lid, new_loan |-> new,
     outstanding_balance |-> original_loan.pending,
     refinanced_amount |-> capital_amount,
     interest_rate |-> rate,
     new_period_days |-> end - start,
     status |-> "APPROVED"]

RefinanceLoan(lid, capital_amount, rate, n, periodicity, start, end) ==
    LET call == [Call("refinance_loan", lid) EXCEPT !.amount = capital_amount]
        why == RefinanceRejects(lid, capital_amount)
    IN  /\ IF why # ""
           THEN /\ last' = Fail(call, why)
                /\ UNCHANGED <<db, nextLoan>>
           ELSE IF n = 0
           THEN \* Decimal's division by zero in generate_installments, rolled back by
                \* transaction.atomic(); the id the sequence gave the loan is spent
                /\ last' = Fail(call, "exception")
                /\ nextLoan' = nextLoan + 1
                /\ UNCHANGED db
           ELSE LET new == nextLoan
                    row == NewLoanRow(capital_amount, rate, n, periodicity, start, end,
                                      None, 0, 0, Some(lid), TRUE)
                    original_loan == SavedLoan([loans[lid] EXCEPT
                                         !.status = "REFINANCED",
                                         !.total = ToMicro(@), !.pending = ToMicro(@)])
                IN  /\ loans' = Merge([loans EXCEPT ![lid] = original_loan],
                                      [x \in {new} |-> row])
                    /\ installments' = Merge(installments,
                           GenerateInstallments(new, capital_amount, rate, n, periodicity,
                                                start, end))
                    /\ refinancings' = Append(refinancings,
                           RefinancingRow(original_loan, lid, new, capital_amount, rate,
                                          start, end))
                    /\ nextLoan' = nextLoan + 1
                    /\ last' = [call EXCEPT !.row = new]
                    /\ UNCHANGED <<payments, pis, adjustments, classification>>
        /\ UNCHANGED <<nextPayment, today, tx>>

\* --------------------------------------------------------------- delete_loan
\* the failures a delete_loan without the guard on payments would return
DeleteLoanRejectsUnguarded(lid) ==
    IF lid \notin DOMAIN loans THEN "not_found" ELSE ""

\* the failure delete_loan returns, "" when none
DeleteLoanRejects(lid) ==
    IF lid \notin DOMAIN loans THEN "not_found"
    ELSE IF \E pid \in DOMAIN payments : payments[pid].loan = lid THEN "payments"
    ELSE ""

\* loan.delete(): the loan row and the rows that reference it with on_delete=CASCADE
\* (installments, payments, their PaymentInstallment rows, penalty adjustments,
\* refinancings); a loan refinanced from it keeps its row, original_loan set to NULL
Cascade(s, lid) ==
    LET goneI == InstOf(s.installments, lid)
        goneP == {pid \in DOMAIN s.payments : s.payments[pid].loan = lid}
        KeepAdjustment(a) == a.loan # lid
        KeepRefinancing(r) == r.original_loan # lid /\ r.new_loan # lid
        kept == Restrict(s.loans, DOMAIN s.loans \ {lid})
    IN  [s EXCEPT
            !.loans = [l \in DOMAIN kept |->
                          IF kept[l].original = Some(lid) THEN [kept[l] EXCEPT !.original = None]
                          ELSE kept[l]],
            !.installments = Restrict(@, DOMAIN @ \ goneI),
            !.payments = Restrict(@, DOMAIN @ \ goneP),
            !.pis = Restrict(@, {x \in DOMAIN @ : x[1] \notin goneP /\ x[2] \notin goneI}),
            !.adjustments = SelectSeq(@, KeepAdjustment),
            !.refinancings = SelectSeq(@, KeepRefinancing)]

DeleteLoan(lid) ==
    LET call == Call("delete_loan", lid)
        why == DeleteLoanRejects(lid)
    IN  /\ IF why # ""
           THEN /\ last' = Fail(call, why)
                /\ UNCHANGED db
           ELSE /\ last' = call
                /\ Commit(Cascade(DB, lid))
        /\ UNCHANGED <<nextLoan, nextPayment, today, tx>>

\* ------------------------------------------------------------ the ledger
\* The ledger specification: loans and their payments, on loans of one product (MaxN equal
\* installments of 100, due daily, a fixed penalty of 20 per day after the end date).
\* The caps keep the rows ever created within the bounds.
LoanIds == 1..MaxLoans

PaymentIds == 1..MaxPayments

Principal == 100 * MaxN

EndDay == MaxDay - 1

Amounts == {0 - 50, 0, 50, 150, Principal + 100}

Selections == {{}, {1}, {MaxN}}

MayCreateLoan(cap) == nextLoan <= cap

MayCreatePayment(cap) == nextPayment <= cap

MaySavePayment(pid) == pid \in DOMAIN payments => payments[pid].saves < MaxSaves

MayAdjust == Len(adjustments) < MaxAdjustments

NextCreateLoan ==
    /\ MayCreateLoan(MaxLoans)
    /\ \E n \in {0, MaxN}, end \in {0, EndDay} :
          CreateLoan(Principal, 0, n, "DAILY", 0, end, Some("FIXED"), 20, 0)

NextCreatePayment ==
    /\ MayCreatePayment(MaxPayments)
    /\ \E lid \in LoanIds, amount \in Amounts, ids \in Selections :
          CreatePayment(lid, amount, ids, amount)

NextUpdatePayment ==
    \E pid \in PaymentIds, amount \in {None, Some(0), Some(50)} :
        MaySavePayment(pid) /\ UpdatePayment(pid, amount)

NextUpdateLoanPenalty ==
    /\ MayAdjust
    /\ \E lid \in LoanIds, penalty_applied \in {0, 20} :
          UpdateLoanPenalty(lid, penalty_applied, None, None, None)

Next ==
    \/ Tick
    \/ NextCreateLoan
    \/ NextCreatePayment
    \/ NextUpdatePayment
    \/ NextUpdateLoanPenalty

Spec == Init /\ [][Next]_vars

\* ------------------------------------------------------- what is owed
\* The payments specification: loans of the same product, paid with amounts up to and
\* beyond what is owed, the penalty set by hand or by the clock.
OwedLoans == 1

OwedPayments == 2

OwedCreateLoan ==
    /\ MayCreateLoan(OwedLoans)
    /\ CreateLoan(Principal, 0, MaxN, "DAILY", 0, EndDay, Some("FIXED"), 20, 0)

OwedCreatePayment ==
    /\ MayCreatePayment(OwedPayments)
    /\ \E lid \in 1..OwedLoans, amount \in {50, Principal, Principal + 20, Principal + 100},
          ids \in {{}, {MaxN}}, slip \in {0, 5} :
          CreatePayment(lid, amount, ids, amount + slip)

OwedUpdateLoanPenalty ==
    /\ MayAdjust
    /\ \E lid \in 1..OwedLoans : UpdateLoanPenalty(lid, 20, None, None, None)

NextOwed ==
    \/ Tick
    \/ OwedCreateLoan
    \/ OwedCreatePayment
    \/ OwedUpdateLoanPenalty

SpecOwed == Init /\ [][NextOwed]_vars

\* ------------------------------------------------- loan administration
\* The administration specification: loans of the same product are created, paid and
\* refinanced.
AdminLoans == 2

AdminPayments == 1

AdminCreateLoan ==
    /\ MayCreateLoan(AdminLoans)
    /\ CreateLoan(Principal, 0, MaxN, "DAILY", 0, EndDay, Some("FIXED"), 20, 0)

AdminCreatePayment ==
    /\ MayCreatePayment(AdminPayments)
    /\ \E lid \in 1..AdminLoans, amount \in {50, Principal} : CreatePayment(lid, amount, {}, amount)

AdminRefinanceLoan ==
    /\ MayCreateLoan(AdminLoans)
    /\ \E lid \in 1..AdminLoans, capital_amount \in {100, Principal, Principal + 100},
          n \in {0, 1} :
          RefinanceLoan(lid, capital_amount, 0, n, "DAILY", today, today + 1)

AdminDeleteLoan == \E lid \in 1..AdminLoans : DeleteLoan(lid)

NextLoans ==
    \/ Tick
    \/ AdminCreateLoan
    \/ AdminCreatePayment
    \/ AdminRefinanceLoan
    \/ AdminDeleteLoan

SpecLoans == Init /\ [][NextLoans]_vars

\* ------------------------------------------------------------ loan edits
\* The edit specification: a loan of the same product is created, paid and edited.
EditLoans == 1

EditPayments == 1

EditCreateLoan ==
    /\ MayCreateLoan(EditLoans)
    /\ CreateLoan(Principal, 0, MaxN, "DAILY", 0, EndDay, Some("FIXED"), 20, 0)

EditCreatePayment ==
    /\ MayCreatePayment(EditPayments)
    /\ \E lid \in 1..EditLoans, amount \in {50, Principal} : CreatePayment(lid, amount, {}, amount)

EditUpdateLoan ==
    \E lid \in 1..EditLoans, rate \in {None, Some(1000)}, n \in {None, Some(0), Some(1)},
       end \in {None, Some(0)}, ptype \in {None, Some("BOGUS")},
       status \in {None, Some("CANCELLED")} :
        UpdateLoan(lid, rate, n, None, None, end, ptype, None, None, status)

NextEdit ==
    \/ Tick
    \/ EditCreateLoan
    \/ EditCreatePayment
    \/ EditUpdateLoan

SpecEdit == Init /\ [][NextEdit]_vars

\* ------------------------------------------------------------- schedules
\* The schedule specification: create_loan over a range of principals (cents), rates
\* (hundredths of a percent), installment counts, periodicities and end dates.
SchedLoans == 1

SchedPrincipals == {100, 250, 1000, 1001, 33333}

SchedRates == {0, 1000, 833}

SchedPeriodicities == {"DAILY", "WEEKLY", "CUSTOM"}

SchedEnds == {0, 7, 30}

SchedCreateLoan ==
    /\ MayCreateLoan(SchedLoans)
    /\ \E initial \in SchedPrincipals, rate \in SchedRates, n \in 0..MaxN,
          periodicity \in SchedPeriodicities, end \in SchedEnds :
          CreateLoan(initial, rate, n, periodicity, 0, end, None, 0, 0)

NextSched ==
    \/ Tick
    \/ SchedCreateLoan

SpecSched == Init /\ [][NextSched]_vars

\* ------------------------------------------------- concurrent payments
\* The concurrent specification: two create_payment requests on one loan, each in its own
\* transaction of the PostgreSQL database at its default isolation, READ COMMITTED.  A
\* statement reads the committed rows and the writes of its own transaction; an UPDATE
\* locks its row until the transaction ends, and an UPDATE of a row locked by another
\* transaction waits.  A step is one statement of the request, or several whose rows no
\* other request can touch in between.  The requests select no installments
\* (installment_ids = []), and the loan, the clock and the penalty are set before the
\* first request arrives.
Requests == {1, 2}

ConcLoans == 1

NoWrites == [loans |-> <<>>, installments |-> <<>>, payments |-> <<>>, pis |-> <<>>,
             classification |-> None]

\* the database as the statements of request p read it
View(p) ==
    LET w == tx[p].w
    IN  [DB EXCEPT !.loans = Merge(@, w.loans),
                   !.installments = Merge(@, w.installments),
                   !.payments = Merge(@, w.payments),
                   !.pis = Merge(@, w.pis),
                   !.classification = IF w.classification = None THEN @
                                      ELSE Val(w.classification)]

\* the row locks other requests hold
LoanLocked(p, lid) == \E q \in DOMAIN tx \ {p} : lid \in DOMAIN tx[q].w.loans

InstallmentLocked(p, k) == \E q \in DOMAIN tx \ {p} : k \in DOMAIN tx[q].w.installments

ClientLocked(p) == \E q \in DOMAIN tx \ {p} : tx[q].w.classification # None

At(p, pc) == p \in DOMAIN tx /\ tx[p].pc = pc

\* create_payment up to the creation of the Payment: Loan.objects.get and the
\* validations; before is the database when the first request arrived
Begin(p, lid, amount) ==
    /\ p \notin DOMAIN tx
    /\ lid \in DOMAIN loans
    /\ LET why == CreatePaymentRejects(DB, lid, amount, {}, amount)
           before == IF tx = <<>> THEN DB ELSE tx[CHOOSE q \in DOMAIN tx : TRUE].before
           request == [pc |-> IF why = "" THEN "save" ELSE "done", ok |-> why = "",
                       lid |-> lid, amount |-> amount, loan |-> loans[lid], pid |-> 0,
                       remaining |-> 0, rows |-> <<>>, w |-> NoWrites, before |-> before]
       IN  /\ tx' = Merge(tx, [x \in {p} |-> request])
           /\ last' = IF why = "" THEN [Call("begin", lid) EXCEPT !.amount = amount]
                      ELSE Fail([Call("begin", lid) EXCEPT !.amount = amount], why)
    /\ UNCHANGED <<db, nextLoan, nextPayment, today>>

\* Payment.save: super().save() inserts the row, then the penalty of the loan object
\* read by Begin is reduced and written
SavePayment(p) ==
    /\ At(p, "save")
    /\ LET t == tx[p]
           amount_to_penalty == AmountToPenalty(t.amount, t.loan.penalty)
           pid == nextPayment
           row == [View(p).loans[t.lid] EXCEPT !.penalty = t.loan.penalty - amount_to_penalty]
           w1 == [t.w EXCEPT !.payments = Merge(@, [x \in {pid} |-> NewPaymentRow(t.lid, t.amount)])]
           w2 == IF amount_to_penalty > 0
                 THEN [w1 EXCEPT !.loans = Merge(@, [x \in {t.lid} |-> row])]
                 ELSE w1
       IN  /\ amount_to_penalty > 0 => ~LoanLocked(p, t.lid)
           /\ tx' = [tx EXCEPT ![p] =
                        [t EXCEPT !.pc = IF t.amount - amount_to_penalty > 0 THEN "select"
                                         ELSE "refresh",
                                  !.pid = pid,
                                  !.remaining = t.amount - amount_to_penalty,
                                  !.loan.penalty = @ - amount_to_penalty,
                                  !.w = w2]]
           /\ nextPayment' = nextPayment + 1
           /\ last' = Call("save", t.lid)
    /\ UNCHANGED <<db, nextLoan, today>>

\* Payment._update_installments: the queryset of the open installments is read
SelectInstallments(p) ==
    /\ At(p, "select")
    /\ LET t == tx[p]
           seen == View(p).installments
           todo == {k \in InstOf(seen, t.lid) :
                       seen[k].status \in {"PENDING", "OVERDUE", "PARTIALLY_PAID"}}
       IN  /\ tx' = [tx EXCEPT ![p] = [t EXCEPT !.pc = "apply", !.rows = Restrict(seen, todo)]]
           /\ last' = Call("select", t.lid)
    /\ UNCHANGED <<db, nextLoan, nextPayment, today>>

\* Payment._update_installments: the loop over the rows read, a PaymentInstallment
\* created and the installment's status written for each installment it reaches
ApplyToInstallments(p) ==
    /\ At(p, "apply")
    /\ LET t == tx[p]
           mem == [View(p) EXCEPT !.installments = Merge(@, t.rows)]
           r == Distribute(mem, t.pid, DOMAIN t.rows, t.remaining, today)
           touched == {k \in DOMAIN t.rows : <<t.pid, k>> \in DOMAIN r.pis}
           w == [t.w EXCEPT !.installments = Merge(@, Restrict(r.installments, touched)),
                            !.pis = Merge(@, Restrict(r.pis, {<<t.pid, k>> : k \in touched}))]
       IN  /\ \A k \in touched : ~InstallmentLocked(p, k)
           /\ tx' = [tx EXCEPT ![p] = [t EXCEPT !.pc = "refresh", !.w = w]]
           /\ last' = Call("apply", t.lid)
    /\ UNCHANGED <<db, nextLoan, nextPayment, today>>

\* Payment.save: loan.refresh_from_db()
RefreshLoan(p) ==
    /\ At(p, "refresh")
    /\ LET t == tx[p]
       IN  /\ tx' = [tx EXCEPT ![p] = [t EXCEPT !.pc = "write", !.loan = View(p).loans[t.lid]]]
           /\ last' = Call("refresh", t.lid)
    /\ UNCHANGED <<db, nextLoan, nextPayment, today>>

\* Payment.save: the loan's paid_amount, pending_amount and status are computed from the
\* object refreshed and written, then the client is classified
WriteLoan(p) ==
    /\ At(p, "write")
    /\ LET t == tx[p]
           paid == t.loan.paid + t.amount
           pending == t.loan.total - paid
           status == LoanStatusAfterPayment(t.loan, pending, today)
           row == [View(p).loans[t.lid] EXCEPT !.paid = paid, !.pending = pending,
                                               !.status = status]
           ls == Merge(View(p).loans, [x \in {t.lid} |-> row])
           w == [t.w EXCEPT !.loans = Merge(@, [x \in {t.lid} |-> row]),
                            !.classification = Some(Classify(ls))]
       IN  /\ ~LoanLocked(p, t.lid)
           /\ ~ClientLocked(p)
           /\ tx' = [tx EXCEPT ![p] =
                        [t EXCEPT !.pc = "penalty", !.w = w,
                                  !.loan = [@ EXCEPT !.paid = paid, !.pending = pending,
                                                     !.status = status]]]
           /\ last' = Call("write", t.lid)
    /\ UNCHANGED <<db, nextLoan, nextPayment, today>>

\* create_payment: loan.calculate_penalty() on the loan object
RecalculatePenalty(p) ==
    /\ At(p, "penalty")
    /\ LET t == tx[p]
           loan == CalculatePenalty(t.loan, today)
           row == [View(p).loans[t.lid] EXCEPT !.penalty = loan.penalty]
           w == IF PenaltyIsDue(t.loan, today)
                THEN [t.w EXCEPT !.loans = Merge(@, [x \in {t.lid} |-> row])]
                ELSE t.w
       IN  /\ tx' = [tx EXCEPT ![p] = [t EXCEPT !.pc = "commit", !.w = w, !.loan = loan]]
           /\ last' = Call("penalty", t.lid)
    /\ UNCHANGED <<db, nextLoan, nextPayment, today>>

\* transaction.atomic() exits: the writes are committed and the locks released
CommitPayment(p) ==
    /\ At(p, "commit")
    /\ Commit(View(p))
    /\ tx' = [tx EXCEPT ![p] = [@ EXCEPT !.pc = "done", !.w = NoWrites]]
    /\ last' = Call("commit", tx[p].lid)
    /\ UNCHANGED <<nextLoan, nextPayment, today>>

ConcTick == tx = <<>> /\ Tick

ConcCreateLoan ==
    /\ tx = <<>>
    /\ MayCreateLoan(ConcLoans)
    /\ CreateLoan(Principal, 0, MaxN, "DAILY", 0, EndDay, Some("FIXED"), 20, 0)

ConcUpdateLoanPenalty ==
    /\ tx = <<>>
    /\ MayAdjust
    /\ \E lid \in 1..ConcLoans : UpdateLoanPenalty(lid, 20, None, None, None)

ConcBegin == \E p \in Requests, lid \in 1..ConcLoans, amount \in {50, Principal} : Begin(p, lid, amount)

ConcSavePayment == \E p \in Requests : SavePayment(p)

ConcSelectInstallments == \E p \in Requests : SelectInstallments(p)

ConcApplyToInstallments == \E p \in Requests : ApplyToInstallments(p)

ConcRefreshLoan == \E p \in Requests : RefreshLoan(p)

ConcWriteLoan == \E p \in Requests : WriteLoan(p)

ConcRecalculatePenalty == \E p \in Requests : RecalculatePenalty(p)

ConcCommitPayment == \E p \in Requests : CommitPayment(p)

NextConc ==
    \/ ConcTick
    \/ ConcCreateLoan
    \/ ConcUpdateLoanPenalty
    \/ ConcBegin
    \/ ConcSavePayment
    \/ ConcSelectInstallments
    \/ ConcApplyToInstallments
    \/ ConcRefreshLoan
    \/ ConcWriteLoan
    \/ ConcRecalculatePenalty
    \/ ConcCommitPayment

SpecConc == Init /\ [][NextConc]_vars

\* --------------------------------------------------------- classification
\* The classification specification: the client's loans are created, given any status by
\* update_loan, and the client is reclassified.
ClassLoans == 3

\* Client.update_classification() called on the client
UpdateClassification ==
    /\ classification' = Classify(loans)
    /\ last' = Call("update_classification", 0)
    /\ UNCHANGED <<loans, installments, payments, pis, adjustments, refinancings,
                   nextLoan, nextPayment, today, tx>>

ClassCreateLoan ==
    /\ MayCreateLoan(ClassLoans)
    /\ CreateLoan(100, 0, 1, "DAILY", 0, 1, None, 0, 0)

ClassUpdateLoan ==
    \E lid \in 1..ClassLoans, status \in LOAN_STATUS_CHOICES :
        UpdateLoan(lid, None, None, None, None, None, None, None, None, Some(status))

NextClass ==
    \/ ClassCreateLoan
    \/ ClassUpdateLoan
    \/ UpdateClassification

SpecClass == Init /\ [][NextClass]_vars

\* ------------------------------------------------------------ regeneration
\* The regeneration specification: a loan is created with any installment count and its
\* count, end date and periodicity are edited while nothing is paid, all on one day.
RegenLoans == 1

RegenCreateLoan ==
    /\ MayCreateLoan(RegenLoans)
    /\ \E initial \in {100, 250, 1001}, n \in 0..MaxN, end \in {1, 7} :
          CreateLoan(initial, 1000, n, "CUSTOM", 0, end, None, 0, 0)

RegenUpdateLoan ==
    \E lid \in 1..RegenLoans, n \in {None, Some(1), Some(MaxN)},
       periodicity \in {None, Some("WEEKLY")}, end \in {None, Some(3)} :
        UpdateLoan(lid, None, n, periodicity, None, end, None, None, None, None)

NextRegen ==
    \/ RegenCreateLoan
    \/ RegenUpdateLoan

SpecRegen == Init /\ [][NextRegen]_vars

\* ------------------------------------------------------------ the penalty
\* The penalty specification: a loan with a fixed, a percentage or no penalty runs past
\* its end date, is paid in part, and its penalty is recomputed at any moment.
PenaltyLoans == 1

PenaltyPayments == 2

PenaltyCreateLoan ==
    /\ MayCreateLoan(PenaltyLoans)
    /\ \E penalty \in {<<None, 0, 0>>, <<Some("FIXED"), 20, 0>>, <<Some("PERCENTAGE"), 0, 150>>} :
          CreateLoan(Principal, 1000, 1, "DAILY", 0, EndDay, penalty[1], penalty[2], penalty[3])

PenaltyCreatePayment ==
    /\ MayCreatePayment(PenaltyPayments)
    /\ \E lid \in 1..PenaltyLoans, amount \in {50, Principal + 30} :
          CreatePayment(lid, amount, {}, amount)

PenaltyCalculate == \E lid \in 1..PenaltyLoans : CalculatePenaltyCall(lid)

NextPenalty ==
    \/ Tick
    \/ PenaltyCreateLoan
    \/ PenaltyCreatePayment
    \/ PenaltyCalculate

SpecPenalty == Init /\ [][NextPenalty]_vars

\* ------------------------------------------------------------- rate edits
\* The rate specification: a small loan is paid, in part or in full, and its interest
\* rate is edited before and after the payments.
RateLoans == 1

RatePayments == 2

RateCreateLoan ==
    /\ MayCreateLoan(RateLoans)
    /\ CreateLoan(100, 1100, 1, "DAILY", 0, EndDay, None, 0, 0)

RateCreatePayment ==
    /\ MayCreatePayment(RatePayments)
    /\ \E lid \in 1..RateLoans, amount \in {50, 61, 111} : CreatePayment(lid, amount, {}, amount)

RateUpdateLoan ==
    \E lid \in 1..RateLoans, rate \in {0, 50, 1100} :
        UpdateLoan(lid, Some(rate), None, None, None, None, None, None, None, None)

NextRate ==
    \/ Tick
    \/ RateCreateLoan
    \/ RateCreatePayment
    \/ RateUpdateLoan

SpecRate == Init /\ [][NextRate]_vars

\* ------------------------------------------------------- the audit trail
\* The audit specification: the penalty of a loan is set by hand, raised, reduced and
\* forgiven, and the loan is deleted.
AuditLoans == 1

AuditAdjustments == 2

AuditCreateLoan ==
    /\ MayCreateLoan(AuditLoans)
    /\ CreateLoan(Principal, 0, 1, "DAILY", 0, EndDay, Some("FIXED"), 20, 0)

AuditUpdateLoanPenalty ==
    /\ Len(adjustments) < AuditAdjustments
    /\ \E lid \in 1..AuditLoans, penalty_applied \in {0, 10, 20},
          pamount \in {None, Some(30)} :
          UpdateLoanPenalty(lid, penalty_applied, None, pamount, None)

AuditDeleteLoan == \E lid \in 1..AuditLoans : DeleteLoan(lid)

NextAudit ==
    \/ Tick
    \/ AuditCreateLoan
    \/ AuditUpdateLoanPenalty
    \/ AuditDeleteLoan

SpecAudit == Init /\ [][NextAudit]_vars

\* ------------------------------------------------------------ refinancing
\* The refinancing specification: one loan is created, paid in part or in full, and
\* refinanced, and so are the loans that refinance it.
RefiOriginals == 1

RefiLoans == 3

RefiPayments == 1

RefiCreateLoan ==
    /\ MayCreateLoan(RefiOriginals)
    /\ CreateLoan(Principal, 1000, 2, "DAILY", 0, EndDay, Some("FIXED"), 20, 0)

RefiCreatePayment ==
    /\ MayCreatePayment(RefiPayments)
    /\ \E lid \in 1..RefiLoans, amount \in {50, Principal + 30} :
          CreatePayment(lid, amount, {}, amount)

RefiRefinanceLoan ==
    /\ MayCreateLoan(RefiLoans)
    /\ \E lid \in 1..RefiLoans, capital_amount \in {100, Principal + 100}, rate \in {0, 1000},
          n \in {0, 2}, end \in {1, 7} :
          RefinanceLoan(lid, capital_amount, rate, n, "WEEKLY", 0, end)

NextRefi ==
    \/ RefiCreateLoan
    \/ RefiCreatePayment
    \/ RefiRefinanceLoan

SpecRefi == Init /\ [][NextRefi]_vars

\* ------------------------------------------------- the regeneration guard
\* The guard specification: a loan receives payments of any sign and its number of
\* installments is edited.
GuardLoans == 1

GuardPayments == 2

GuardCreateLoan ==
    /\ MayCreateLoan(GuardLoans)
    /\ CreateLoan(Principal, 0, MaxN, "DAILY", 0, EndDay, None, 0, 0)

GuardCreatePayment ==
    /\ MayCreatePayment(GuardPayments)
    /\ \E lid \in 1..GuardLoans, amount \in {50, 0, 0 - 50} :
          CreatePayment(lid, amount, {}, amount)

GuardUpdateLoan ==
    \E lid \in 1..GuardLoans, n \in {None, Some(1), Some(2)}, status \in {None, Some("ACTIVE")} :
        UpdateLoan(lid, None, n, None, None, None, None, None, None, status)

NextGuard ==
    \/ Tick
    \/ GuardCreateLoan
    \/ GuardCreatePayment
    \/ GuardUpdateLoan

SpecGuard == Init /\ [][NextGuard]_vars

\* ---------------------------------------------------------------- dates
\* The dates specification: loans are created, edited and refinanced with start and end
\* dates in either order.
DateLoans == 2

DateCreateLoan ==
    /\ MayCreateLoan(DateLoans - 1)
    /\ \E start \in {0, 1}, end \in {0, 1, 2} :
          CreateLoan(Principal, 0, 2, "CUSTOM", start, end, None, 0, 0)

DateUpdateLoan ==
    \E lid \in 1..DateLoans, start \in {None, Some(0), Some(2)}, end \in {None, Some(1), Some(2)},
       n \in {None, Some(1)} :
        UpdateLoan(lid, None, n, None, start, end, None, None, None, None)

DateRefinanceLoan ==
    /\ MayCreateLoan(DateLoans)
    /\ \E lid \in 1..DateLoans, end \in {0, 1, 2} :
          RefinanceLoan(lid, 100, 0, 1, "CUSTOM", 1, end)

NextDate ==
    \/ DateCreateLoan
    \/ DateUpdateLoan
    \/ DateRefinanceLoan

SpecDate == Init /\ [][NextDate]_vars

\* --------------------------------------------------------------- the claims
\* the stored total_amount of the installments of loan lid, summed
ScheduleTotal(lid) ==
    SumOver([k \in InstOf(installments, lid) |-> installments[k].total],
            InstOf(installments, lid))

\* C1: schedule sum invariant. For every loan created by create_loan with N >= 1, the
\* stored total_amount of its installments sums to the loan's stored total_amount, to
\* the cent.
C1_ScheduleSum ==
    \A lid \in DOMAIN loans : ScheduleTotal(lid) = loans[lid].total

\* a schedule whose rows do not add up to the loan's total was stored
C1_Generated ==
    \E lid \in DOMAIN loans : loans[lid].n >= 1 /\ InstOf(installments, lid) # {}

\* the PaymentInstallment amounts applied to installment k, over all payments
Applied(k) ==
    LET rows == {x \in DOMAIN pis : x[2] = k}
    IN  SumOver([x \in rows |-> pis[x]], rows)

\* installment k counts as fully paid by any of the ledger's three records of it
FullyPaid(k) ==
    \/ installments[k].status = "PAID"
    \/ installments[k].paid >= installments[k].total
    \/ Applied(k) >= installments[k].total

\* the amount payment pid applied to installment k, 0 when it has no row for it
AppliedBy(pid, k) == IF <<pid, k>> \in DOMAIN pis THEN pis[<<pid, k>>] ELSE 0

\* C2: strict FIFO allocation. After every successful register_payment, whatever
\* installments the caller selected, an installment holds a positive amount of that
\* payment only if every lower-numbered installment of the loan is fully paid.
C2_StrictFifo ==
    (last.op = "register_payment" /\ last.ok) =>
        \A k \in InstOf(installments, last.loan) :
            AppliedBy(last.row, k) > 0 =>
                \A j \in InstOf(installments, last.loan) : j[2] < k[2] => FullyPaid(j)

\* a register_payment that selected installments succeeded
C2_Paid ==
    /\ last.op = "register_payment" /\ last.ok
    /\ \E k \in InstOf(installments, last.loan) : AppliedBy(last.row, k) > 0

\* the total payment pid applied to installments in the rows t of PaymentInstallment
AppliedTotal(t, pid) ==
    LET rows == {x \in DOMAIN t : x[1] = pid}
    IN  SumOver([x \in rows |-> t[x]], rows)

\* C3: penalty-first allocation. A successful register_payment of a positive amount a
\* on a loan whose penalty_applied is p leaves penalty_applied = p - min(a, p) and
\* applies exactly a - min(a, p) to installments.
C3_PenaltyFirst ==
    [][(last'.op = "register_payment" /\ last'.ok /\ last'.amount > 0) =>
          LET lid == last'.loan
              a == last'.amount
              p == loans[lid].penalty
          IN  /\ loans'[lid].penalty = p - Min(a, p)
              /\ AppliedTotal(pis', last'.row) = a - Min(a, p)]_vars

\* C4: accumulating paid_amount. Every installment's stored paid_amount equals the
\* sum of amount_applied of its PaymentInstallment rows.
C4_PaidIsApplied ==
    \A k \in DOMAIN installments : installments[k].paid = Applied(k)

\* C5: allocation fires exactly once. A step of update_payment on an existing payment
\* changes no loan, installment or PaymentInstallment row: the side effects of the
\* payment were applied when it was created.
C5_AllocatesOnce ==
    [][(last'.op = "update_payment" /\ last'.ok) =>
          /\ loans' = loans
          /\ installments' = installments
          /\ pis' = pis]_vars

\* C6: register_payment rejects every amount <= 0, persists no Payment and leaves the
\* loan, its installments and its penalty unchanged.
C6_RejectsNonPositive ==
    [][(last'.op = "register_payment" /\ last'.loan \in DOMAIN loans /\ last'.amount <= 0) =>
          /\ ~last'.ok
          /\ db' = db]_vars

\* C7: register_payment rejects every amount greater than the loan's pending_amount
\* plus penalty_applied, persists no Payment or PaymentInstallment row and leaves the
\* loan and its installments unchanged.
C7_RejectsExcess ==
    [][(/\ last'.op = "register_payment"
        /\ last'.loan \in DOMAIN loans
        /\ last'.amount > loans[last'.loan].pending + loans[last'.loan].penalty) =>
          /\ ~last'.ok
          /\ db' = db
          /\ nextPayment' = nextPayment]_vars

\* a payment was rejected for exceeding what is owed on a loan that carries a penalty
\* and has been paid in part
C7_Rejected ==
    /\ last.op = "register_payment" /\ ~last.ok /\ last.why = "exceeds"
    /\ loans[last.loan].penalty > 0
    /\ loans[last.loan].paid > 0
    /\ last.amount <= loans[last.loan].total + loans[last.loan].penalty

\* C8: validation precedes writes. When update_loan, create_loan, refinance_loan or
\* register_payment returns a failure, no row is changed by that call.
C8_FailureWritesNothing ==
    [][(/\ last'.op \in {"update_loan", "create_loan", "refinance_loan", "register_payment"}
        /\ ~last'.ok) =>
          db' = db]_vars

\* C10: refinancing preconditions. refinance_loan fails when the original loan's
\* pending_amount is <= 0 or the capital exceeds it, and then creates no loan,
\* installment or Refinancing row and leaves the original loan unchanged.
C10_RefinancePreconditions ==
    [][(/\ last'.op = "refinance_loan"
        /\ last'.loan \in DOMAIN loans
        /\ \/ loans[last'.loan].pending <= 0
           \/ last'.amount > loans[last'.loan].pending) =>
          /\ ~last'.ok
          /\ db' = db
          /\ nextLoan' = nextLoan]_vars

\* a refinancing was rejected for a capital above what is pending on a loan paid in part
C10_Rejected ==
    /\ last.op = "refinance_loan" /\ ~last.ok /\ last.why = "exceeds"
    /\ loans[last.loan].paid > 0
    /\ last.amount <= loans[last.loan].total

\* one create_payment of the amount with no installments selected, run alone on the
\* database s: the database after it and whether it was accepted
Registered(s, lid, amount, day) ==
    LET pid == Cardinality(DOMAIN s.payments) + 1
        why == CreatePaymentRejects(s, lid, amount, {}, amount)
        written == CreatePaymentWrites(s, lid, amount, {}, pid, day)
    IN  IF why # "" \/ written.err THEN [s |-> s, ok |-> FALSE]
        ELSE [s |-> written.s, ok |-> TRUE]

\* the loans and installments, and the results of the requests, are those of request
\* first run alone and then request second run alone
SerialOrder(first, second) ==
    LET r1 == Registered(tx[first].before, tx[first].lid, tx[first].amount, today)
        r2 == Registered(r1.s, tx[second].lid, tx[second].amount, today)
    IN  /\ tx[first].ok = r1.ok
        /\ tx[second].ok = r2.ok
        /\ loans = r2.s.loans
        /\ installments = r2.s.installments

BothDone == DOMAIN tx = Requests /\ \A p \in Requests : tx[p].pc = "done"

\* C9: concurrent payments on the same loan are serialized. Once two register_payment
\* requests on one loan have both ended, their results and the loan and its
\* installments are those of the two requests run one after the other, in one of the
\* two orders.
C9_Serialized ==
    BothDone => (SerialOrder(1, 2) \/ SerialOrder(2, 1))

\* both requests were accepted and committed
C9_BothAccepted ==
    BothDone /\ \A p \in Requests : tx[p].ok

\* C11: loan deletion guard. delete_loan on a loan with at least one Payment fails and
\* leaves every row as it was; on a loan with no Payment it succeeds and removes the
\* loan and all its installments, leaving the other loans' installments in place.
C11_DeletionGuard ==
    [][(last'.op = "delete_loan" /\ last'.loan \in DOMAIN loans) =>
          LET lid == last'.loan
          IN  IF \E pid \in DOMAIN payments : payments[pid].loan = lid
              THEN ~last'.ok /\ db' = db
              ELSE /\ last'.ok
                   /\ lid \notin DOMAIN loans'
                   /\ InstOf(installments', lid) = {}
                   /\ installments' = Restrict(installments,
                                               DOMAIN installments \ InstOf(installments, lid))
                   /\ payments' = payments]_vars

\* a delete_loan was refused on a loan that has a payment
C11_Refused ==
    /\ last.op = "delete_loan" /\ ~last.ok /\ last.why = "payments"
    /\ last.loan \in DOMAIN loans
    /\ InstOf(installments, last.loan) # {}

\* the number of the client's loans whose status is in the set
CountIn(statuses) == Cardinality({l \in DOMAIN loans : loans[l].status \in statuses})

\* the classification the rule of precedence gives the client's current loans
RuleClassification ==
    LET all == Cardinality(DOMAIN loans)
        bad == CountIn({"DEFAULTING", "REFINANCED"})
    IN  IF all = 0 THEN "REGULAR"
        ELSE IF bad = 0 /\ CountIn({"COMPLETED"}) >= 1 THEN "PUNCTUAL"
        ELSE IF 100 * bad >= 50 * all THEN "SEVERELY_DEFAULTING"
        ELSE IF bad >= 1 THEN "DEFAULTING"
        ELSE "REGULAR"

C13_ClassificationDerived ==
    (/\ last.op \in {"create_loan", "register_payment", "refinance_loan", "update_loan",
                     "delete_loan"}
     /\ last.ok) =>
        classification = RuleClassification

\* a loan was refinanced
C13_Refinanced ==
    last.op = "refinance_loan" /\ last.ok /\ loans[last.loan].status = "REFINANCED"

C15_PaymentAtomic ==
    [][(last'.op = "register_payment" /\ ~last'.ok) => db' = db]_vars

\* a register_payment failed on the payment-installment row of a selected installment
\* that the payment's own distribution had already reached: its id is spent, no row is left
C15_RolledBack ==
    /\ last.op = "register_payment" /\ ~last.ok /\ last.why = "exception"
    /\ nextPayment - 1 \notin DOMAIN payments
    /\ \A k \in DOMAIN pis : k[1] # nextPayment - 1

\* C16: the penalty recompute is idempotent. A calculate_penalty that follows another one on
\* the same loan on the same day, with no step in between, returns the same value and
\* leaves the loan row, penalty_applied included, as the first call left it.
C16_RecomputeIdempotent ==
    [][(/\ last.op = "calculate_penalty"
        /\ last'.op = "calculate_penalty"
        /\ last'.loan = last.loan) =>
          /\ last'.amount = last.amount
          /\ loans' = loans]_vars

\* a penalty was recomputed on an overdue open loan: the call returned a penalty and the
\* row holds it
C16_Recomputed ==
    /\ last.op = "calculate_penalty"
    /\ last.amount > 0
    /\ PenaltyIsDue(loans[last.loan], today)
    /\ loans[last.loan].penalty = Quantize(last.amount)

\* C17: the loan balance invariant. In every reachable state every loan's stored
\* pending_amount is its stored total_amount minus its stored paid_amount, and its
\* total_amount is initial_amount + initial_amount * interest_rate / 100 as the column
\* stores it.
C17_BalanceInvariant ==
    \A lid \in DOMAIN loans :
        /\ loans[lid].pending = loans[lid].total - loans[lid].paid
        /\ loans[lid].total = Quantize(TotalMicro(loans[lid].initial, loans[lid].rate))

\* an update_loan changed the interest rate of a loan that had been paid in full
C17_RateEdited ==
    /\ last.op = "update_loan" /\ last.ok
    /\ loans[last.loan].rate = 50
    /\ loans[last.loan].paid = 111

\* C18: the penalty override audit. Every successful update_loan_penalty appends exactly
\* one PenaltyAdjustment row with the previous and the new penalty_applied, typed
\* ELIMINATE when the new one is 0, REDUCE when it is below the previous one, MODIFY
\* otherwise; no other step changes or removes a PenaltyAdjustment row.
C18_AuditAppendOnly ==
    [][IF last'.op = "update_loan_penalty" /\ last'.ok
       THEN LET lid == last'.loan
                new == last'.amount
                previous == loans[lid].penalty
            IN  adjustments' = Append(adjustments,
                    [loan |-> lid,
                     adjustment_type |-> IF new = 0 THEN "ELIMINATE"
                                         ELSE IF new < previous THEN "REDUCE"
                                         ELSE "MODIFY",
                     previous_penalty |-> previous,
                     new_penalty |-> new])
       ELSE adjustments' = adjustments]_vars

\* a penalty set by hand was reduced by hand: two audit rows, the second a REDUCE
C18_Reduced ==
    /\ last.op = "update_loan_penalty" /\ last.ok
    /\ Len(adjustments) = 2
    /\ adjustments[2].adjustment_type = "REDUCE"
    /\ adjustments[2].previous_penalty = adjustments[1].new_penalty

\* C19: the loan aggregate refresh. A successful register_payment of amount a raises the
\* loan's paid_amount by exactly a, the part applied to the penalty included, leaves
\* total_amount alone, sets pending_amount to total_amount - paid_amount, and sets the
\* status to COMPLETED when pending_amount <= 0, else to DEFAULTING when end_date < today,
\* else leaves it as it was.
C19_AggregateRefresh ==
    [][(last'.op = "register_payment" /\ last'.ok) =>
          LET lid == last'.loan
              a == last'.amount
              before == loans[lid]
              after == loans'[lid]
          IN  /\ after.paid = before.paid + a
              /\ after.total = before.total
              /\ after.pending = after.total - after.paid
              /\ after.status = IF after.pending <= 0 THEN "COMPLETED"
                                ELSE IF before.end < today THEN "DEFAULTING"
                                ELSE before.status]_vars

\* a payment made after the end date paid the penalty and part of the balance: the whole
\* amount is in paid_amount and the loan is DEFAULTING
C19_PaidLate ==
    /\ last.op = "register_payment" /\ last.ok
    /\ loans[last.loan].end < today
    /\ loans[last.loan].status = "DEFAULTING"
    /\ loans[last.loan].paid = last.amount
    /\ SumOver(pis, {k \in DOMAIN pis : k[1] = last.row}) < last.amount

\* C20: the installment status is a function of the stored amounts. After a successful
\* register_payment every installment the payment touched has the status the rule gives
\* for its stored paid_amount, total_amount and due_date on that day: PAID if paid >= total,
\* else PARTIALLY_PAID if paid > 0, else OVERDUE if today > due_date, else PENDING.
C20_StatusFromStored ==
    [][(last'.op = "register_payment" /\ last'.ok) =>
          \A k \in DOMAIN installments' :
              <<last'.row, k>> \in DOMAIN pis' =>
                  installments'[k].status =
                      IF installments'[k].paid >= installments'[k].total THEN "PAID"
                      ELSE IF installments'[k].paid > 0 THEN "PARTIALLY_PAID"
                      ELSE IF today > installments'[k].due THEN "OVERDUE"
                      ELSE "PENDING"]_vars

\* a payment covered an installment: its row says PAID
C20_Touched ==
    /\ last.op = "register_payment" /\ last.ok
    /\ \E k \in DOMAIN installments :
          /\ <<last.row, k>> \in DOMAIN pis
          /\ pis[<<last.row, k>>] = installments[k].total
          /\ installments[k].status = "PAID"

C22_RefinancingEffects ==
    [][(last'.op = "refinance_loan") =>
          IF ~last'.ok THEN db' = db
          ELSE LET lid == last'.loan
                   new == last'.row
                   capital_amount == last'.amount
               IN  /\ DOMAIN loans' = DOMAIN loans \cup {new}
                   /\ new \notin DOMAIN loans
                   /\ loans'[new].status = "ACTIVE"
                   /\ loans'[new].initial = capital_amount
                   /\ loans'[new].original = Some(lid)
                   /\ loans'[new].isref
                   /\ InstOf(installments', new) = {<<new, i>> : i \in 1..loans'[new].n}
                   /\ loans'[lid].status = "REFINANCED"
                   /\ refinancings' = Append(refinancings,
                          [original_loan |-> lid, new_loan |-> new,
                           outstanding_balance |-> loans[lid].pending,
                           refinanced_amount |-> capital_amount,
                           interest_rate |-> loans'[new].rate,
                           new_period_days |-> loans'[new].end - loans'[new].start,
                           status |-> "APPROVED"])]_vars

\* a loan was refinanced after a payment: the row holds what was still pending
C22_RefinancedAfterPayment ==
    /\ last.op = "refinance_loan" /\ last.ok
    /\ loans[last.loan].paid > 0
    /\ refinancings[Len(refinancings)].outstanding_balance = loans[last.loan].pending
    /\ refinancings[Len(refinancings)].new_period_days = 7

\* C23: the frame of a refinancing. A successful refinance_loan leaves the original loan's
\* installments, its payments and their payment-installment rows, and every field of the
\* original loan but its status (paid_amount, pending_amount and penalty_applied among
\* them) as they were.
C23_RefinancingFrame ==
    [][(last'.op = "refinance_loan" /\ last'.ok) =>
          LET lid == last'.loan
          IN  /\ InstOf(installments', lid) = InstOf(installments, lid)
              /\ \A k \in InstOf(installments, lid) : installments'[k] = installments[k]
              /\ payments' = payments
              /\ pis' = pis
              /\ loans'[lid] = [loans[lid] EXCEPT !.status = "REFINANCED"]]_vars

\* a loan with a partly paid installment was refinanced
C23_PartlyPaidRefinanced ==
    /\ last.op = "refinance_loan" /\ last.ok
    /\ loans[last.loan].status = "REFINANCED"
    /\ loans[last.loan].paid = 50
    /\ loans[last.loan].pending = loans[last.loan].total - 50
    /\ \E k \in InstOf(installments, last.loan) : installments[k].status = "PARTIALLY_PAID"

\* C24: the schedule regeneration guard. An update_loan replaces the installments of a
\* loan only when its paid_amount is 0 and it has no payments, so no installment that
\* carries a payment-installment row is deleted; otherwise the installments and the loan
\* stay as they were.
C24_RegenerationGuard ==
    [][(last'.op = "update_loan" /\ last'.loan \in DOMAIN loans) =>
          LET lid == last'.loan
              paidLoan == \/ loans[lid].paid # 0
                          \/ \E pid \in DOMAIN payments : payments[pid].loan = lid
          IN  /\ installments' # installments => ~paidLoan
              /\ \A x \in DOMAIN pis : x[2] \in DOMAIN installments'
                                         /\ installments'[x[2]] = installments[x[2]]]_vars

\* an update_loan with a new number of installments was refused on a loan with a payment
C24_Refused ==
    /\ last.op = "update_loan" /\ ~last.ok /\ last.why = "paid"
    /\ loans[last.loan].paid > 0
    /\ \E x \in DOMAIN pis : x[2][1] = last.loan

\* C25: the date order. Every stored loan has start_date < end_date in every reachable
\* state.
C25_DateOrder == \A lid \in DOMAIN loans : loans[lid].start < loans[lid].end

\* create_loan refused a loan whose start date is not before its end date
C25_CreateRefused ==
    /\ last.op = "create_loan" /\ ~last.ok /\ last.why = "dates"
    /\ loans = <<>>

\* C26: completion matches the schedule. When a register_payment sets a loan's status to
\* COMPLETED, every installment of the loan is PAID and its penalty_applied is 0.
C26_CompletionMatchesSchedule ==
    [][(/\ last'.op = "register_payment" /\ last'.ok
        /\ loans[last'.loan].status # "COMPLETED"
        /\ loans'[last'.loan].status = "COMPLETED") =>
          /\ \A k \in InstOf(installments', last'.loan) : installments'[k].status = "PAID"
          /\ loans'[last'.loan].penalty = 0]_vars

\* a payment of the whole balance, made before any penalty, completed the loan with
\* every installment PAID
C26_CompletedInFull ==
    /\ last.op = "register_payment" /\ last.ok
    /\ loans[last.loan].status = "COMPLETED"
    /\ loans[last.loan].paid = loans[last.loan].total
    /\ loans[last.loan].penalty = 0
    /\ \A k \in InstOf(installments, last.loan) : installments[k].status = "PAID"

\* C27: no over-collection on the loan. In every reachable state every loan has
\* 0 <= paid_amount <= total_amount and a pending_amount that is not negative.
C27_NoOverCollection ==
    \A lid \in DOMAIN loans :
        /\ 0 <= loans[lid].paid
        /\ loans[lid].paid <= loans[lid].total
        /\ loans[lid].pending >= 0

\* two payments were accepted and the loan is still owed in part
C27_TwoAccepted ==
    /\ last.op = "register_payment" /\ last.ok
    /\ Cardinality({pid \in DOMAIN payments : payments[pid].loan = last.loan}) = 2
    /\ loans[last.loan].paid = 100
    /\ loans[last.loan].pending = loans[last.loan].total - 100

\* C28: no over-application. In every reachable state the amounts applied to one
\* installment by all its payment-installment rows sum to at most the installment's
\* total_amount, and the amounts applied by one payment sum to at most its amount.
C28_NoOverApplication ==
    /\ \A k \in DOMAIN installments :
          SumOver(pis, {x \in DOMAIN pis : x[2] = k}) <= installments[k].total
    /\ \A pid \in DOMAIN payments :
          SumOver(pis, {x \in DOMAIN pis : x[1] = pid}) <= payments[pid].amount

\* one payment covered the first installment and part of the second
C28_SpreadOverTwo ==
    /\ last.op = "register_payment" /\ last.ok
    /\ Cardinality({x \in DOMAIN pis : x[1] = last.row}) = 2
    /\ SumOver(pis, {x \in DOMAIN pis : x[1] = last.row}) = last.amount

\* C29: closed loans stay closed. A register_payment against a loan whose status is
\* REFINANCED or CANCELLED is refused or, when accepted, does not move the loan's status to
\* DEFAULTING, ACTIVE or COMPLETED.
C29_ClosedStaysClosed ==
    [][(/\ last'.op = "register_payment"
        /\ last'.loan \in DOMAIN loans
        /\ loans[last'.loan].status \in {"REFINANCED", "CANCELLED"}) =>
          \/ ~last'.ok
          \/ loans'[last'.loan].status \notin {"DEFAULTING", "ACTIVE", "COMPLETED"}]_vars

\* a part payment made before the end date was accepted on a refinanced loan, which
\* stayed REFINANCED
C29_PaidWhileRefinanced ==
    /\ last.op = "register_payment" /\ last.ok
    /\ loans[last.loan].status = "REFINANCED"
    /\ loans[last.loan].paid = last.amount
    /\ \E r \in 1..Len(refinancings) : refinancings[r].original_loan = last.loan

\* C30: a loan is refinanced at most once. A refinance_loan of a loan whose status is
\* REFINANCED, COMPLETED or CANCELLED is refused, and after any refinance_loan at most one
\* Refinancing row and at most one loan refer to the original.
C30_RefinancedOnce ==
    [][(last'.op = "refinance_loan" /\ last'.loan \in DOMAIN loans) =>
          LET lid == last'.loan
          IN  /\ loans[lid].status \in {"REFINANCED", "COMPLETED", "CANCELLED"} => ~last'.ok
              /\ Cardinality({r \in 1..Len(refinancings') :
                                 refinancings'[r].original_loan = lid}) <= 1
              /\ Cardinality({l \in DOMAIN loans' : loans'[l].original = Some(lid)}) <= 1]_vars

\* the refinancing of a loan that a payment had completed was refused
C30_CompletedRefused ==
    /\ last.op = "refinance_loan" /\ ~last.ok /\ last.why = "paid_off"
    /\ loans[last.loan].status = "COMPLETED"
    /\ refinancings = <<>>

====
